---- MODULE Spec2Model ----
(***************************************************************************)
(* One invocation of hetzner.py: argument parsing, token resolution, the   *)
(* API client (HetznerCloudManager) and the three subcommand handlers      *)
(* create, delete and list.  The remote API and the terminal are the       *)
(* environment: every response and every confirmation line is chosen       *)
(* nondeterministically when the program blocks on it.                     *)
(*                                                                         *)
(* Strings the program converts or inspects (str(id), isdigit(), lower(),  *)
(* ljust formatting) are sequences of one-character strings; strings it    *)
(* only passes along are TLA+ strings.  A Python Optional is <<>> for None *)
(* and <<x>> for the value x.                                              *)
(***************************************************************************)
EXTENDS Integers, Sequences, FiniteSets, TLC

VARIABLES args, environ, pc, api_token, requests, outstanding, responses,
          ssh_key_ids, server_id, confirmation, stdout, stderr, exit_code

vars == <<args, environ, pc, api_token, requests, outstanding, responses,
          ssh_key_ids, server_id, confirmation, stdout, stderr, exit_code>>

----------------------------------------------------------------------------
(* Bounds of the model: lengths of the lists the environment supplies.     *)

MaxKeys == 2

MaxRefs == 2

MaxServers == 2

----------------------------------------------------------------------------
(* Python values.                                                          *)

None == <<>>

Some(x) == <<x>>

SeqsUpTo(S, n) == UNION {[1..k -> S] : k \in 0..n}

NonEmptySeqsUpTo(S, n) == UNION {[1..k -> S] : k \in 1..n}

\* dict.get(k, default)
Get(obj, k, default) == IF k \in DOMAIN obj THEN obj[k] ELSE default

Digit == <<"0", "1", "2", "3", "4", "5", "6", "7", "8", "9">>

DigitChars == {Digit[i] : i \in DOMAIN Digit}

\* str(n) of a non-negative int: its decimal digits
RECURSIVE Str(_)
Str(n) ==
    IF n < 10 THEN <<Digit[n + 1]>>
    ELSE Str(n \div 10) \o <<Digit[(n % 10) + 1]>>

\* str.isdigit(): non-empty and every character a digit
IsDigit(s) == Len(s) > 0 /\ \A i \in DOMAIN s : s[i] \in DigitChars

LowerChar(c) ==
    CASE c = "Y" -> "y"
      [] c = "E" -> "e"
      [] c = "S" -> "s"
      [] c = "N" -> "n"
      [] c = "O" -> "o"
      [] OTHER -> c

\* str.lower()
Lower(s) == [i \in DOMAIN s |-> LowerChar(s[i])]

RECURSIVE Spaces(_)
Spaces(n) == IF n <= 0 THEN <<>> ELSE <<" ">> \o Spaces(n - 1)

\* format(s, "<w"): left-justified, padded with spaces to width w, never cut
LJust(s, w) == s \o Spaces(w - Len(s))

----------------------------------------------------------------------------
(* Defaults of the command line (argparse).                                *)

DEFAULT_NAME == <<"i", "s", "a", "a", "c">>

DEFAULT_SERVER_TYPE == "cax41"

DEFAULT_IMAGE == "ubuntu-24.04"

DEFAULT_LOCATION == "nbg1"

DEFAULT_SSH_KEY == <<"h", "@", "p">>

\* argparse: parser.error() prints the usage to stderr and exits with status 2
UsageErrorStatus == 2

----------------------------------------------------------------------------
(* HetznerCloudManager: the four requests and _check_response.             *)

Line(tag, arg) == [tag |-> tag, arg |-> arg]

EmptyObj == <<>>

\* the payload with ssh_keys always set
CreatePayloadAlwaysKeys(name, server_type, image, location, ssh_keys) ==
    [name |-> name, server_type |-> server_type, image |-> image,
     location |-> location,
     public_net |-> [enable_ipv4 |-> TRUE, enable_ipv6 |-> TRUE],
     ssh_keys |-> IF ssh_keys = None THEN <<>> ELSE ssh_keys[1]]

\* create_server's JSON payload
CreatePayload(name, server_type, image, location, ssh_keys) ==
    IF ssh_keys # None /\ ssh_keys[1] # <<>>
    THEN [name |-> name, server_type |-> server_type, image |-> image,
          location |-> location,
          public_net |-> [enable_ipv4 |-> TRUE, enable_ipv6 |-> TRUE],
          ssh_keys |-> ssh_keys[1]]
    ELSE [name |-> name, server_type |-> server_type, image |-> image,
          location |-> location,
          public_net |-> [enable_ipv4 |-> TRUE, enable_ipv6 |-> TRUE]]

\* requests.post(f"{API_BASE_URL}/servers", headers, json=data)
CreateServerRequest(token, name, server_type, image, location, ssh_keys) ==
    [method |-> "POST", path |-> "/servers", target |-> <<>>, auth |-> token,
     payload |-> Some(CreatePayload(name, server_type, image, location, ssh_keys))]

\* requests.delete(f"{API_BASE_URL}/servers/{server_id}", headers)
DeleteServerRequest(token, sid) ==
    [method |-> "DELETE", path |-> "/servers/", target |-> sid, auth |-> token,
     payload |-> None]

\* requests.get(f"{API_BASE_URL}/servers", headers)
ListServersRequest(token) ==
    [method |-> "GET", path |-> "/servers", target |-> <<>>, auth |-> token,
     payload |-> None]

\* the key listing asked of the servers endpoint
GetSshKeysRequestOfServers(token) ==
    [method |-> "GET", path |-> "/servers", target |-> <<>>, auth |-> token,
     payload |-> None]

\* requests.get(f"{API_BASE_URL}/ssh_keys", headers)
GetSshKeysRequest(token) ==
    [method |-> "GET", path |-> "/ssh_keys", target |-> <<>>, auth |-> token,
     payload |-> None]

\* a default that also lets 404 pass
DefaultSuccessCodesWith404 == {200, 201, 404}

\* _check_response's default success_codes
DefaultSuccessCodes == {200, 201}

\* delete_server calling _check_response without its own success_codes
DeleteSuccessCodesDefault == {200, 201}

\* the success_codes delete_server passes
DeleteSuccessCodes == {204}

\* the raw status and text always
ErrorLineRaw(response) == Line("ErrorHTTP", <<response.status, response.text>>)

\* what _check_response prints for a response it rejects
ErrorLine(response) ==
    IF response.parses
    THEN Line("Error",
              Get(Get(response.json, "error", EmptyObj), "message", "Unknown error"))
    ELSE Line("ErrorHTTP", <<response.status, response.text>>)

----------------------------------------------------------------------------
(* The environment: what the API may answer and the user may type.         *)

StatusCodes == {200, 201, 204, 404}

\* bodies of a rejected response: not JSON, or a JSON object
ErrorBodies ==
    {[parses |-> FALSE, json |-> EmptyObj, text |-> "Bad Gateway"],
     [parses |-> TRUE, text |-> "json",
      json |-> [error |-> [message |-> "server not found", code |-> "not_found"]]],
     [parses |-> TRUE, text |-> "json", json |-> [error |-> [code |-> "not_found"]]],
     [parses |-> TRUE, text |-> "json", json |-> EmptyObj]}

NoContent == [parses |-> FALSE, json |-> EmptyObj, text |-> ""]

JsonBody(obj) == [parses |-> TRUE, json |-> obj, text |-> "json"]

Response(status, body) ==
    [status |-> status, parses |-> body.parses, json |-> body.json, text |-> body.text]

KeyIds == {1, 12}

KeyNames == {DEFAULT_SSH_KEY, <<"1">>}

KeyRefs == {DEFAULT_SSH_KEY, <<"1">>, <<"1", "2">>}

SshKeys == [id : KeyIds, name : KeyNames]

SshKeysBodies ==
    {JsonBody([ssh_keys |-> ks]) : ks \in SeqsUpTo(SshKeys, MaxKeys)}
        \cup {JsonBody(EmptyObj)}

ServerIds == {1, 12}

ServerNames == {DEFAULT_NAME, <<"1">>}

ServerIdents == {DEFAULT_NAME, <<"1">>, <<"1", "2">>, <<"x", "1">>, <<>>}

NamedServers == [id : ServerIds, name : ServerNames]

NamedServersBodies ==
    {JsonBody([servers |-> ss]) : ss \in SeqsUpTo(NamedServers, MaxServers)}
        \cup {JsonBody(EmptyObj)}

ConfirmationInputs ==
    {<<>>, <<"y">>, <<"Y">>, <<"n">>, <<"N">>, <<"y", "e">>, <<"n", "o">>,
     <<"y", "e", "s">>, <<"Y", "E", "S">>, <<"Y", "e", "s">>, <<"y", "E", "s">>,
     <<"y", "e", "s", "s">>, <<" ", "y">>, <<"y", "y">>}

CreatedBodies ==
    {JsonBody([server |-> [id |-> 7,
                           public_net |-> [ipv4 |-> [ip |-> "192.0.2.7"],
                                           ipv6 |-> [ip |-> "2001:db8::/64"]]],
               root_password |-> "secret"]),
     JsonBody([server |-> [id |-> 7]]),
     JsonBody(EmptyObj)}

ServerSpecs ==
    {[name |-> DEFAULT_NAME, server_type |-> DEFAULT_SERVER_TYPE,
      image |-> DEFAULT_IMAGE, location |-> DEFAULT_LOCATION],
     [name |-> <<"w", "e", "b">>, server_type |-> "cx22", image |-> "debian-12",
      location |-> "fsn1"]}

TokenValues == {None, Some(""), Some("flag-token")}

EnvironValues == {None, Some(""), Some("env-token")}

\* server records of a listing, whole and with a field missing at each level
FullServer ==
    [id |-> 12, name |-> <<"w", "e", "b">>, status |-> <<"o", "n">>,
     server_type |-> [name |-> <<"c", "x">>, cores |-> 2],
     public_net |-> [ipv4 |-> [ip |-> <<"1", ".", "2">>, blocked |-> FALSE],
                     ipv6 |-> [ip |-> <<":", ":">>]],
     datacenter |-> [location |-> [name |-> <<"n", "b", "g">>, city |-> "N"],
                     name |-> "nbg1-dc3"]]

Without(obj, k) == [f \in DOMAIN obj \ {k} |-> obj[f]]

With(obj, k, v) == [f \in DOMAIN obj \cup {k} |-> IF f = k THEN v ELSE obj[f]]

ListedServers ==
    {FullServer, EmptyObj,
     With(FullServer, "id", 3),
     Without(FullServer, "id"), Without(FullServer, "name"),
     Without(FullServer, "status"), Without(FullServer, "server_type"),
     With(FullServer, "server_type", [cores |-> 2]),
     Without(FullServer, "public_net"),
     With(FullServer, "public_net", [ipv6 |-> [ip |-> <<":", ":">>]]),
     With(FullServer, "public_net", [ipv4 |-> [blocked |-> FALSE]]),
     Without(FullServer, "datacenter"),
     With(FullServer, "datacenter", [name |-> "nbg1-dc3"]),
     With(FullServer, "datacenter", [location |-> [city |-> "N"]])}

ListedServersBodies ==
    {JsonBody([servers |-> ss]) : ss \in SeqsUpTo(ListedServers, MaxServers)}
        \cup {JsonBody(EmptyObj)}

----------------------------------------------------------------------------
(* The subcommand handlers' pure parts.                                    *)

NA == <<"N", "/", "A">>

\* the environment variable taking precedence over the flag
ResolveTokenEnvFirst(token, env) ==
    IF env # None /\ env[1] # "" THEN env ELSE token

\* api_token = args.token or os.environ.get("HETZNER_API_TOKEN")
ResolveToken(token, env) ==
    IF token # None /\ token[1] # "" THEN token ELSE env

\* `not api_token`
Falsy(tok) == IF tok = None THEN TRUE ELSE tok[1] = ""

\* matching by name only
KeyMatchesNameOnly(key_name, key) == key_name = key.name

\* key_name == key['name'] or key_name == str(key['id'])
KeyMatches(key_name, key) == key_name = key.name \/ key_name = Str(key.id)

\* index of the key the inner loop of create_server breaks on, 0 when none
FirstKey(key_name, keys) ==
    IF \E i \in DOMAIN keys : KeyMatches(key_name, keys[i])
    THEN CHOOSE i \in DOMAIN keys :
             /\ KeyMatches(key_name, keys[i])
             /\ \A j \in 1..(i - 1) : ~KeyMatches(key_name, keys[j])
    ELSE 0

\* ssh_key_ids after the loop over args.ssh_keys
RECURSIVE ResolveKeys(_, _)
ResolveKeys(refs, keys) ==
    IF refs = <<>> THEN <<>>
    ELSE LET i == FirstKey(Head(refs), keys)
         IN (IF i = 0 THEN <<>> ELSE <<keys[i].id>>) \o ResolveKeys(Tail(refs), keys)

\* the lines that loop prints
RECURSIVE ResolveLines(_, _)
ResolveLines(refs, keys) ==
    IF refs = <<>> THEN <<>>
    ELSE LET i == FirstKey(Head(refs), keys)
         IN <<IF i = 0 THEN Line("Warning", Head(refs))
              ELSE Line("key", <<keys[i].name, keys[i].id>>)>>
            \o ResolveLines(Tail(refs), keys)

\* the loop without its break: the last match wins
FindServerLast(ident, servers) ==
    IF \E i \in DOMAIN servers : servers[i].name = ident
    THEN CHOOSE i \in DOMAIN servers :
             /\ servers[i].name = ident
             /\ \A j \in (i + 1)..Len(servers) : servers[j].name # ident
    ELSE 0

\* index of the server the loop of delete_server breaks on, 0 for its else branch
FindServer(ident, servers) ==
    IF \E i \in DOMAIN servers : servers[i].name = ident
    THEN CHOOSE i \in DOMAIN servers :
             /\ servers[i].name = ident
             /\ \A j \in 1..(i - 1) : servers[j].name # ident
    ELSE 0

\* any answer that starts with y or Y
ConfirmedByPrefix(input) == input # <<>> /\ LowerChar(input[1]) = "y"

\* confirmation.lower() in ['y', 'yes']
Confirmed(input) == Lower(input) \in {<<"y">>, <<"y", "e", "s">>}

\* a row that reads the address and the location one level too high
ServerRowShallow(server) ==
    <<LJust(IF "id" \in DOMAIN server THEN Str(server.id) ELSE NA, 10),
      LJust(Get(server, "name", NA), 20),
      LJust(Get(server, "status", NA), 15),
      LJust(Get(Get(server, "server_type", EmptyObj), "name", NA), 10),
      LJust(Get(Get(server, "public_net", EmptyObj), "ip", NA), 15),
      LJust(Get(Get(server, "datacenter", EmptyObj), "name", NA), 10)>>

\* one row of list_servers: the six cells, each left-justified to its width
ServerRow(server) ==
    <<LJust(IF "id" \in DOMAIN server THEN Str(server.id) ELSE NA, 10),
      LJust(Get(server, "name", NA), 20),
      LJust(Get(server, "status", NA), 15),
      LJust(Get(Get(server, "server_type", EmptyObj), "name", NA), 10),
      LJust(Get(Get(Get(server, "public_net", EmptyObj), "ipv4", EmptyObj),
                "ip", NA), 15),
      LJust(Get(Get(Get(server, "datacenter", EmptyObj), "location", EmptyObj),
                "name", NA), 10)>>

\* what list_servers prints for a listing
RenderServers(servers) ==
    IF servers = <<>> THEN <<Line("No servers found.", <<>>)>>
    ELSE <<Line("Found", Len(servers)), Line("header", <<>>), Line("rule", 80)>>
         \o [i \in DOMAIN servers |-> Line("row", ServerRow(servers[i]))]

----------------------------------------------------------------------------
(* The state machine.  pc is the blocking call the process is at:          *)
(* "main" (arguments parsed, line 320), "get_ssh_keys", "create_server",   *)
(* "list_for_delete", "input", "delete_server", "list_servers" (waiting    *)
(* for that call's response or input line) and "exit".  exit_code is -1    *)
(* while the process runs.                                                 *)

\* parser.parse_args(): the Namespace of the chosen subcommand.  The options of
\* the other subcommands are not in it; they are held at their defaults here.
Init ==
    /\ \E command \in {"create", "delete", "list"},
          token \in TokenValues, spec \in ServerSpecs,
          ssh_keys \in NonEmptySeqsUpTo(KeyRefs, MaxRefs),
          sid \in ServerIdents, force \in BOOLEAN :
         /\ command # "create" =>
                spec.name = DEFAULT_NAME /\ spec.server_type = DEFAULT_SERVER_TYPE
                /\ ssh_keys = <<DEFAULT_SSH_KEY>>
         /\ command # "delete" => sid = DEFAULT_NAME /\ ~force
         /\ args = [command |-> command, token |-> token, name |-> spec.name,
                    server_type |-> spec.server_type, image |-> spec.image,
                    location |-> spec.location, ssh_keys |-> ssh_keys,
                    server_id |-> sid, force |-> force]
    /\ environ \in EnvironValues
    /\ pc = "main"
    /\ api_token = None
    /\ requests = <<>>
    /\ outstanding = <<>>
    /\ responses = <<>>
    /\ ssh_key_ids = <<>>
    /\ server_id = <<>>
    /\ confirmation = None
    /\ stdout = <<>>
    /\ stderr = <<>>
    /\ exit_code = -1

\* sys.exit(code), or main returning (code 0)
Exit(code) == pc' = "exit" /\ exit_code' = code

\* the blocking HTTP calls of one step: the response that arrived (if any)
\* and the request that goes out (if any)
Transport(received, sent) ==
    /\ responses' = responses \o received
    /\ requests' = requests \o sent
    /\ outstanding' =
           (IF received # <<>> THEN Tail(outstanding) ELSE outstanding) \o sent

Send(req) == Transport(<<>>, <<req>>)

Receive(response) == Transport(<<response>>, <<>>)

ReceiveAndSend(response, req) == Transport(<<response>>, <<req>>)

\* _check_response rejecting: print the error, sys.exit(1)
CheckFailed(response) ==
    /\ Receive(response)
    /\ stdout' = Append(stdout, ErrorLine(response))
    /\ Exit(1)
    /\ UNCHANGED <<args, environ, api_token, ssh_key_ids, server_id,
                   confirmation, stderr>>

\* main, lines 323-325: no token, parser.error
MainNoToken ==
    /\ pc = "main"
    /\ Falsy(ResolveToken(args.token, environ))
    /\ stderr' = Append(stderr, Line("usage error", "API token is required"))
    /\ Exit(UsageErrorStatus)
    /\ UNCHANGED <<args, environ, api_token, requests, outstanding, responses,
                   ssh_key_ids, server_id, confirmation, stdout>>

\* main with a token, args.func = create_server up to get_ssh_keys (line 161)
\* or, with no key reference, up to the POST (line 187)
MainCreate ==
    /\ pc = "main"
    /\ args.command = "create"
    /\ ~Falsy(ResolveToken(args.token, environ))
    /\ api_token' = ResolveToken(args.token, environ)
    /\ IF args.ssh_keys # <<>>
       THEN /\ Send(GetSshKeysRequest(api_token'))
            /\ pc' = "get_ssh_keys"
            /\ UNCHANGED stdout
       ELSE /\ Send(CreateServerRequest(api_token', args.name, args.server_type,
                                        args.image, args.location, None))
            /\ pc' = "create_server"
            /\ stdout' = Append(stdout,
                   Line("Creating", <<args.name, args.server_type, args.image,
                                      args.location>>))
    /\ UNCHANGED <<args, environ, responses, ssh_key_ids, server_id, confirmation,
                   stderr, exit_code>>

\* create_server, lines 161-193: the key listing arrives, the references are
\* resolved and the POST goes out
CreateResolveKeys ==
    /\ pc = "get_ssh_keys"
    /\ \E status \in DefaultSuccessCodes, body \in SshKeysBodies :
         LET response == Response(status, body)
             all_ssh_keys == Get(response.json, "ssh_keys", <<>>)
             ids == ResolveKeys(args.ssh_keys, all_ssh_keys)
         IN /\ ssh_key_ids' = ids
            /\ stdout' = stdout
                   \o (IF all_ssh_keys # <<>> THEN <<Line("Using", <<>>)>> ELSE <<>>)
                   \o ResolveLines(args.ssh_keys, all_ssh_keys)
                   \o <<Line("Creating", <<args.name, args.server_type, args.image,
                                           args.location>>)>>
            /\ ReceiveAndSend(response,
                   CreateServerRequest(api_token, args.name, args.server_type,
                       args.image, args.location,
                       IF ids # <<>> THEN Some(ids) ELSE None))
    /\ pc' = "create_server"
    /\ UNCHANGED <<args, environ, api_token, server_id, confirmation, stderr,
                   exit_code>>

\* get_ssh_keys rejected by _check_response
GetSshKeysFailed ==
    /\ pc = "get_ssh_keys"
    /\ \E status \in StatusCodes \ DefaultSuccessCodes, body \in ErrorBodies :
         CheckFailed(Response(status, body))

\* create_server, lines 195-207: the server was created; main returns
CreateDone ==
    /\ pc = "create_server"
    /\ \E status \in DefaultSuccessCodes, body \in CreatedBodies :
         LET response == Response(status, body)
             server == Get(response.json, "server", EmptyObj)
             public_net == Get(server, "public_net", EmptyObj)
             server_ipv4 == Get(Get(public_net, "ipv4", EmptyObj), "ip", "Not assigned")
             server_ipv6 == Get(Get(public_net, "ipv6", EmptyObj), "ip", "Not assigned")
         IN /\ Receive(response)
            /\ stdout' = stdout \o
                   <<Line("Server created successfully!", <<>>),
                     Line("Server ID", Get(server, "id", None)),
                     Line("IPv4", server_ipv4),
                     Line("IPv6", server_ipv6),
                     Line("Root Password",
                          Get(response.json, "root_password",
                              "Not provided (using SSH key)")),
                     Line("ssh root@", server_ipv4)>>
    /\ Exit(0)
    /\ UNCHANGED <<args, environ, api_token, ssh_key_ids, server_id,
                   confirmation, stderr>>

\* the POST rejected by _check_response
CreateFailed ==
    /\ pc = "create_server"
    /\ \E status \in StatusCodes \ DefaultSuccessCodes, body \in ErrorBodies :
         CheckFailed(Response(status, body))

\* delete_server, lines 234-242, for the resolved id: prompt and block on
\* input(), or with --force go on to the DELETE
DeleteStage(token, sid, out, received) ==
    /\ server_id' = sid
    /\ IF ~args.force
       THEN /\ stdout' = Append(out, Line("Are you sure", sid))
            /\ Transport(received, <<>>)
            /\ pc' = "input"
       ELSE /\ stdout' = Append(out, Line("Deleting", sid))
            /\ Transport(received, <<DeleteServerRequest(token, sid)>>)
            /\ pc' = "delete_server"

\* main with a token, args.func = delete_server up to its first blocking call
MainDelete ==
    /\ pc = "main"
    /\ args.command = "delete"
    /\ ~Falsy(ResolveToken(args.token, environ))
    /\ api_token' = ResolveToken(args.token, environ)
    /\ IF ~IsDigit(args.server_id)
       THEN /\ server_id' = args.server_id
            /\ Send(ListServersRequest(api_token'))
            /\ pc' = "list_for_delete"
            /\ UNCHANGED stdout
       ELSE DeleteStage(api_token', args.server_id, stdout, <<>>)
    /\ UNCHANGED <<args, environ, ssh_key_ids, confirmation, stderr, exit_code>>

\* delete_server, lines 223-232: the listing arrives and the name is looked up
DeleteLookup ==
    /\ pc = "list_for_delete"
    /\ \E status \in DefaultSuccessCodes, body \in NamedServersBodies :
         LET response == Response(status, body)
             servers == Get(response.json, "servers", <<>>)
             i == FindServer(server_id, servers)
         IN IF i = 0
            THEN /\ stdout' = Append(stdout, Line("Error: not found", args.server_id))
                 /\ Receive(response)
                 /\ Exit(1)
                 /\ UNCHANGED server_id
            ELSE /\ DeleteStage(api_token, Str(servers[i].id),
                        Append(stdout,
                               Line("Found server", <<args.server_id, Str(servers[i].id)>>)),
                        <<response>>)
                 /\ UNCHANGED exit_code
    /\ UNCHANGED <<args, environ, api_token, ssh_key_ids, confirmation, stderr>>

\* list_servers (called by delete_server) rejected by _check_response
DeleteLookupFailed ==
    /\ pc = "list_for_delete"
    /\ \E status \in StatusCodes \ DefaultSuccessCodes, body \in ErrorBodies :
         CheckFailed(Response(status, body))

\* delete_server, lines 236-242: the line typed at the prompt
ReadConfirmation ==
    /\ pc = "input"
    /\ \E input \in ConfirmationInputs :
         /\ confirmation' = Some(input)
         /\ IF ~Confirmed(input)
            THEN /\ stdout' = Append(stdout, Line("Deletion cancelled.", <<>>))
                 /\ Exit(0)
                 /\ UNCHANGED <<requests, outstanding>>
            ELSE /\ stdout' = Append(stdout, Line("Deleting", server_id))
                 /\ Send(DeleteServerRequest(api_token, server_id))
                 /\ pc' = "delete_server"
                 /\ UNCHANGED exit_code
    /\ UNCHANGED <<args, environ, api_token, responses, ssh_key_ids, server_id, stderr>>

\* delete_server, line 243: the DELETE was accepted; main returns
DeleteDone ==
    /\ pc = "delete_server"
    /\ \E status \in DeleteSuccessCodes :
         Receive(Response(status, NoContent))
    /\ stdout' = Append(stdout, Line("has been deleted.", server_id))
    /\ Exit(0)
    /\ UNCHANGED <<args, environ, api_token, ssh_key_ids, server_id, confirmation,
                   stderr>>

\* the DELETE rejected by _check_response
DeleteFailed ==
    /\ pc = "delete_server"
    /\ \E status \in StatusCodes \ DeleteSuccessCodes, body \in ErrorBodies :
         CheckFailed(Response(status, body))

\* main with a token, args.func = list_servers up to its request
MainList ==
    /\ pc = "main"
    /\ args.command = "list"
    /\ ~Falsy(ResolveToken(args.token, environ))
    /\ api_token' = ResolveToken(args.token, environ)
    /\ Send(ListServersRequest(api_token'))
    /\ pc' = "list_servers"
    /\ UNCHANGED <<args, environ, responses, ssh_key_ids, server_id, confirmation,
                   stdout, stderr, exit_code>>

\* list_servers, lines 255-273: the listing arrives and is printed; main returns
ListDone ==
    /\ pc = "list_servers"
    /\ \E status \in DefaultSuccessCodes, body \in ListedServersBodies :
         LET response == Response(status, body)
         IN /\ Receive(response)
            /\ stdout' = stdout \o RenderServers(Get(response.json, "servers", <<>>))
    /\ Exit(0)
    /\ UNCHANGED <<args, environ, api_token, ssh_key_ids, server_id, confirmation,
                   stderr>>

\* list_servers rejected by _check_response
ListFailed ==
    /\ pc = "list_servers"
    /\ \E status \in StatusCodes \ DefaultSuccessCodes, body \in ErrorBodies :
         CheckFailed(Response(status, body))

Next ==
    \/ MainNoToken
    \/ MainCreate
    \/ CreateResolveKeys
    \/ GetSshKeysFailed
    \/ CreateDone
    \/ CreateFailed
    \/ MainDelete
    \/ DeleteLookup
    \/ DeleteLookupFailed
    \/ ReadConfirmation
    \/ DeleteDone
    \/ DeleteFailed
    \/ MainList
    \/ ListDone
    \/ ListFailed

Spec == Init /\ [][Next]_vars

----------------------------------------------------------------------------
(* Vocabulary of the properties.  The i-th response answers the i-th       *)
(* request.  The success statuses are those of the remote API's contract:  *)
(* 204 for a deletion, 200 and 201 for every other request.                *)

Exited == pc = "exit"

Supplied(tok) == IF tok = None THEN FALSE ELSE tok[1] # ""

Issued(method) == \E i \in DOMAIN requests : requests[i].method = method

Printed(tag) == \E i \in DOMAIN stdout : stdout[i].tag = tag

Succeeded(i) ==
    IF requests[i].method = "DELETE" THEN responses[i].status = 204
    ELSE responses[i].status \in {200, 201}

ApiError == \E i \in DOMAIN responses : ~Succeeded(i)

Numeric(s) == s # <<>> /\ \A i \in DOMAIN s : s[i] \in DigitChars

\* the listing a delete by name received, <<>> before it arrived
Listing ==
    IF responses # <<>> /\ requests[1].method = "GET"
          /\ "servers" \in DOMAIN responses[1].json
    THEN responses[1].json.servers ELSE <<>>

NameListed == \E i \in DOMAIN Listing : Listing[i].name = args.server_id

\* a delete by name whose listing arrived and holds no server of that name
LookupFailed ==
    /\ args.command = "delete" /\ ~Numeric(args.server_id)
    /\ responses # <<>> /\ Succeeded(1) /\ ~NameListed

YesAnswers ==
    {<<"y">>, <<"Y">>} \cup
    {<<a, b, c>> : a \in {"y", "Y"}, b \in {"e", "E"}, c \in {"s", "S"}}

Declined == IF confirmation = None THEN FALSE ELSE confirmation[1] \notin YesAnswers

----------------------------------------------------------------------------
(* C1.  The credential of the API client is the --token value when the     *)
(* flag supplies a token, otherwise the HETZNER_API_TOKEN value; when      *)
(* neither supplies one the invocation ends with the usage error and no    *)
(* request (GET, POST or DELETE) has been issued, whatever the subcommand. *)
(* Every request carries the resolved credential.                          *)

TokenResolution ==
    /\ \A i \in DOMAIN requests :
           /\ Supplied(args.token) => requests[i].auth = args.token
           /\ ~Supplied(args.token) => requests[i].auth = environ /\ Supplied(environ)
    /\ pc # "main" /\ Supplied(args.token) => api_token = args.token
    /\ pc # "main" /\ ~Supplied(args.token) /\ Supplied(environ) => api_token = environ
    /\ pc # "main" /\ ~Supplied(args.token) /\ ~Supplied(environ) =>
           /\ Exited /\ exit_code # 0
           /\ \E i \in DOMAIN stderr : stderr[i].tag = "usage error"
           /\ requests = <<>> /\ outstanding = <<>> /\ responses = <<>>

TokenResolutionWitness ==
    /\ Exited /\ args.command = "delete"
    /\ args.token = Some("") /\ environ = None
    /\ requests = <<>>

----------------------------------------------------------------------------
(* C2.  Exit codes: a finished invocation has status 0 when the subcommand *)
(* succeeded or the user declined the confirmation, status 1 after an API  *)
(* error or an unresolved server name in delete, and the status given in   *)
(* CredentialStatus when no credential was supplied.  The process has no   *)
(* status before it exits.                                                 *)

MissingCredential == ~Supplied(args.token) /\ ~Supplied(environ)

ExitCodesWith(credential_status) ==
    /\ ~Exited => exit_code = -1
    /\ Exited /\ MissingCredential => exit_code = credential_status
    /\ Exited /\ ApiError => exit_code = 1
    /\ Exited /\ LookupFailed => exit_code = 1
    /\ Exited /\ Declined => exit_code = 0
    /\ Exited /\ ~MissingCredential /\ ~ApiError /\ ~LookupFailed => exit_code = 0

\* C2 as amended: status 0 on success or a declined confirmation, 1 on an API
\* error or an unresolved name, and 2 (argparse's usage error) on a missing
\* credential
ExitCodes == ExitCodesWith(2)

\* C2 as claimed: the same with status 1 on a missing credential
ExitCodesAsClaimed == ExitCodesWith(1)

ExitCodesWitness ==
    /\ Exited /\ MissingCredential /\ exit_code = 2 /\ args.command = "list"

----------------------------------------------------------------------------
(* C3.  Every server-creation POST carries exactly name, server_type,      *)
(* image and location as given on the command line and public_net with     *)
(* enable_ipv4 and enable_ipv6 true; ssh_keys is in the payload iff the    *)
(* list of resolved key ids is non-empty, and then it is that list.        *)

CreatePayloadExact ==
    \A i \in DOMAIN requests :
        requests[i].method = "POST" =>
            /\ requests[i].payload # None
            /\ LET data == requests[i].payload[1]
               IN /\ DOMAIN data \ {"ssh_keys"} =
                         {"name", "server_type", "image", "location", "public_net"}
                  /\ data.name = args.name
                  /\ data.server_type = args.server_type
                  /\ data.image = args.image
                  /\ data.location = args.location
                  /\ DOMAIN data.public_net = {"enable_ipv4", "enable_ipv6"}
                  /\ data.public_net.enable_ipv4 = TRUE
                  /\ data.public_net.enable_ipv6 = TRUE
                  /\ ("ssh_keys" \in DOMAIN data) <=> (ssh_key_ids # <<>>)
                  /\ ("ssh_keys" \in DOMAIN data) => data.ssh_keys = ssh_key_ids

CreatePayloadWitness ==
    /\ Issued("POST")
    /\ ssh_key_ids = <<>>
    /\ args.name # DEFAULT_NAME
    /\ "ssh_keys" \notin DOMAIN requests[2].payload[1]

----------------------------------------------------------------------------
(* C4.  Once create has received the key listing, the resolved ids are, in *)
(* the order of the references, the id of the first key of the account     *)
(* whose name or decimal id is the reference, one per matched reference;   *)
(* each unmatched reference has a warning naming it and no id; and the     *)
(* POST has been issued, also when no reference matched.                   *)

AccountKeys ==
    IF responses # <<>> /\ "ssh_keys" \in DOMAIN responses[1].json
    THEN responses[1].json.ssh_keys ELSE <<>>

MatchesOf(ref) ==
    {i \in DOMAIN AccountKeys :
        AccountKeys[i].name = ref \/ Str(AccountKeys[i].id) = ref}

MatchedRefs == {r \in DOMAIN args.ssh_keys : MatchesOf(args.ssh_keys[r]) # {}}

FirstOf(S) == CHOOSE i \in S : \A j \in S : i <= j

Warnings == SelectSeq(stdout, LAMBDA l : l.tag = "Warning")

\* C4: the resolved ids are the first matches in reference order, unmatched
\* references only warn, and the POST is issued
KeyResolution ==
    args.command = "create" /\ responses # <<>> /\ Succeeded(1) =>
        /\ Len(ssh_key_ids) = Cardinality(MatchedRefs)
        /\ \A r \in MatchedRefs :
               ssh_key_ids[Cardinality({q \in MatchedRefs : q <= r})] =
                   AccountKeys[FirstOf(MatchesOf(args.ssh_keys[r]))].id
        /\ Len(Warnings) = Len(args.ssh_keys) - Cardinality(MatchedRefs)
        /\ \A r \in DOMAIN args.ssh_keys \ MatchedRefs :
               Warnings[Cardinality({q \in DOMAIN args.ssh_keys \ MatchedRefs : q <= r})].arg
                   = args.ssh_keys[r]
        /\ Len(requests) = 2 /\ requests[2].method = "POST"

\* two keys match the reference "1", the first by its name and the second by
\* its id and its name: the first one's id is taken; the other reference
\* matches nothing
KeyResolutionWitness ==
    /\ args.command = "create" /\ responses # <<>> /\ Succeeded(1)
    /\ args.ssh_keys = <<DEFAULT_SSH_KEY, <<"1">>>>
    /\ Len(AccountKeys) = 2
    /\ AccountKeys[1] = [id |-> 12, name |-> <<"1">>]
    /\ AccountKeys[2] = [id |-> 1, name |-> <<"1">>]
    /\ ssh_key_ids = <<12>>
    /\ requests[2].method = "POST"

----------------------------------------------------------------------------
(* C5.  Name resolution in delete.  A numeric identifier: no listing is    *)
(* requested and any DELETE targets the identifier itself.  Otherwise any  *)
(* DELETE targets the decimal id of the first listed server of that name.  *)
(* When the listing holds no server of that name: an error is printed, the *)
(* process has exited non-zero, and there was no prompt and no DELETE.     *)

FirstNamed == FirstOf({k \in DOMAIN Listing : Listing[k].name = args.server_id})

\* C5: a numeric identifier is deleted as given without a listing, a name is
\* deleted by its first listed id, an unlisted name is fatal before any prompt
NameResolution ==
    args.command = "delete" =>
        /\ Numeric(args.server_id) =>
               /\ ~Issued("GET")
               /\ \A i \in DOMAIN requests :
                      requests[i].method = "DELETE" =>
                          requests[i].target = args.server_id
        /\ ~Numeric(args.server_id) =>
               \A i \in DOMAIN requests :
                   requests[i].method = "DELETE" =>
                       /\ NameListed
                       /\ requests[i].target = Str(Listing[FirstNamed].id)
        /\ LookupFailed =>
               /\ Exited /\ exit_code # 0
               /\ Printed("Error: not found")
               /\ ~Printed("Are you sure") /\ confirmation = None
               /\ ~Issued("DELETE")

\* two listed servers carry the name; the DELETE goes to the first one's id
NameResolutionWitness ==
    /\ args.command = "delete" /\ args.server_id = DEFAULT_NAME
    /\ Len(Listing) = 2
    /\ Listing[1] = [id |-> 12, name |-> DEFAULT_NAME]
    /\ Listing[2] = [id |-> 1, name |-> DEFAULT_NAME]
    /\ Len(requests) = 2 /\ requests[2].method = "DELETE"
    /\ requests[2].target = <<"1", "2">>

----------------------------------------------------------------------------
(* C6.  Delete confirmation.  Without --force a DELETE is issued only      *)
(* after an answer that is y or yes in any letter case; after any other    *)
(* answer no DELETE is issued and the process has exited with status 0.    *)
(* With --force there is no prompt, and the DELETE is issued as soon as    *)
(* the identifier is resolved.                                             *)

Resolved ==
    /\ pc # "main" /\ ~MissingCredential
    /\ IF Numeric(args.server_id) THEN TRUE
       ELSE responses # <<>> /\ Succeeded(1) /\ NameListed

\* C6: without --force no DELETE unless the answer is y or yes in any case,
\* and any other answer exits 0; with --force no prompt and the DELETE
DeleteConfirmation ==
    args.command = "delete" =>
        /\ ~args.force =>
               /\ Issued("DELETE") =>
                      confirmation # None /\ confirmation[1] \in YesAnswers
               /\ Declined => ~Issued("DELETE") /\ Exited /\ exit_code = 0
        /\ args.force =>
               /\ ~Printed("Are you sure") /\ confirmation = None
               /\ Resolved => Issued("DELETE")

\* the empty line declines
DeleteConfirmationWitness ==
    /\ args.command = "delete" /\ ~args.force
    /\ confirmation = Some(<<>>)
    /\ Exited /\ exit_code = 0 /\ ~Issued("DELETE")

----------------------------------------------------------------------------
(* C7.  Deletion succeeds only on 204.  After any other status of the      *)
(* DELETE (404, 200, 201) the process has printed an API error and exited  *)
(* non-zero and "Server <id> has been deleted." is not printed; that line  *)
(* is printed only after a 204, and names the id the DELETE targeted.      *)

LastLine == stdout[Len(stdout)]

\* C7: a DELETE answered other than 204 is a fatal API error without the
\* deleted line; the deleted line follows only a 204
DeleteOnly204 ==
    /\ \A i \in DOMAIN responses :
           requests[i].method = "DELETE" /\ responses[i].status # 204 =>
               /\ Exited /\ exit_code # 0
               /\ LastLine.tag \in {"Error", "ErrorHTTP"}
               /\ ~Printed("has been deleted.")
    /\ \A k \in DOMAIN stdout :
           stdout[k].tag = "has been deleted." =>
               \E i \in DOMAIN responses :
                   /\ requests[i].method = "DELETE"
                   /\ responses[i].status = 204
                   /\ stdout[k].arg = requests[i].target

DeleteOnly204Witness ==
    /\ Exited /\ exit_code = 1
    /\ \E i \in DOMAIN responses :
           requests[i].method = "DELETE" /\ responses[i].status = 200

----------------------------------------------------------------------------
(* C8.  List rendering.  An empty listing prints "No servers found." and   *)
(* nothing else.  A non-empty one prints one header and one row per        *)
(* server, in the provider's order; each of the six cells is the field's   *)
(* value, or N/A when the field is missing from the record, left-justified *)
(* in its column.                                                          *)

Listed ==
    IF "servers" \in DOMAIN responses[1].json THEN responses[1].json.servers ELSE <<>>

Rows == SelectSeq(stdout, LAMBDA l : l.tag = "row")

Shows(cell, text, width) ==
    /\ Len(cell) = width
    /\ SubSeq(cell, 1, Len(text)) = text
    /\ \A j \in (Len(text) + 1)..width : cell[j] = " "

Nested(server, outer, inner) ==
    IF outer \in DOMAIN server
    THEN IF inner \in DOMAIN server[outer] THEN server[outer][inner] ELSE EmptyObj
    ELSE EmptyObj

Leaf(obj, k) == IF k \in DOMAIN obj THEN obj[k] ELSE NA

RowShows(row, server) ==
    /\ Len(row) = 6
    /\ Shows(row[1], IF "id" \in DOMAIN server THEN Str(server.id) ELSE NA, 10)
    /\ Shows(row[2], Leaf(server, "name"), 20)
    /\ Shows(row[3], Leaf(server, "status"), 15)
    /\ Shows(row[4], IF "server_type" \in DOMAIN server
                     THEN Leaf(server.server_type, "name") ELSE NA, 10)
    /\ Shows(row[5], Leaf(Nested(server, "public_net", "ipv4"), "ip"), 15)
    /\ Shows(row[6], Leaf(Nested(server, "datacenter", "location"), "name"), 10)

\* C8: an empty listing prints only "No servers found."; otherwise one row per
\* server in the provider's order, a missing field shown as N/A
ListRendering ==
    args.command = "list" /\ responses # <<>> /\ Succeeded(1) =>
        /\ Listed = <<>> =>
               Len(stdout) = 1 /\ stdout[1].tag = "No servers found."
        /\ Listed # <<>> =>
               /\ ~Printed("No servers found.")
               /\ Len(SelectSeq(stdout, LAMBDA l : l.tag = "header")) = 1
               /\ Len(Rows) = Len(Listed)
               /\ \A k \in DOMAIN Listed : RowShows(Rows[k].arg, Listed[k])

\* a record with no field at all before a whole one
ListRenderingWitness ==
    /\ args.command = "list" /\ Exited /\ exit_code = 0
    /\ Len(Listed) = 2 /\ Listed[1] = EmptyObj /\ Listed[2] = FullServer
    /\ \A c \in 1..6 : SubSeq(Rows[1].arg[c], 1, 3) = NA
    /\ SubSeq(Rows[2].arg[1], 1, 2) = <<"1", "2">>

----------------------------------------------------------------------------
(* C9.  A rejected response.  For every response whose status its request  *)
(* does not accept, the process printed one error line and exited non-zero *)
(* with nothing after it: no further request, response, input or output.   *)
(* As amended, the line is the body's error.message when the body is a     *)
(* JSON object that has one, "Unknown error" when the JSON object has no   *)
(* error.message, and the raw status code and body text when the body is   *)
(* not JSON.  As claimed, the line of every body that parses is the body's *)
(* error.message.                                                          *)

HasMessage(json) ==
    IF "error" \in DOMAIN json THEN "message" \in DOMAIN json.error ELSE FALSE

Fatal(i) ==
    /\ i = Len(responses) /\ Len(requests) = i /\ outstanding = <<>>
    /\ Exited /\ exit_code # 0
    /\ LastLine.tag \in {"Error", "ErrorHTTP"}
    /\ \A k \in 1..(Len(stdout) - 1) : stdout[k].tag \notin {"Error", "ErrorHTTP"}
    /\ ~Printed("Server created successfully!") /\ ~Printed("has been deleted.")
    /\ ~Printed("row") /\ ~Printed("No servers found.")

RawLine(i) ==
    LastLine.tag = "ErrorHTTP"
        /\ LastLine.arg = <<responses[i].status, responses[i].text>>

----------------------------------------------------------------------------
(* C10.  Request ordering.  At most one request is outstanding.  The       *)
(* requests issued are a prefix of the subcommand's fixed sequence: create *)
(* the key listing GET, then the POST; delete the server listing GET       *)
(* (only by name), then the DELETE; list one server listing GET.  Every    *)
(* request but the last has been answered with a success status, so no     *)
(* request follows a failure and none is repeated.  create and list have   *)
(* issued their first request as soon as the token is resolved, and a      *)
(* list that ended without an API error issued exactly one.                *)

Endpoint(i) == <<requests[i].method, requests[i].path>>

Plan ==
    CASE args.command = "create" -> <<<<"GET", "/ssh_keys">>, <<"POST", "/servers">>>>
      [] args.command = "list" -> <<<<"GET", "/servers">>>>
      [] args.command = "delete" /\ Numeric(args.server_id) ->
             <<<<"DELETE", "/servers/">>>>
      [] OTHER -> <<<<"GET", "/servers">>, <<"DELETE", "/servers/">>>>

\* C10: one request at a time, in the subcommand's fixed order, each after the
\* success of the one before, none repeated or retried
RequestOrdering ==
    /\ Len(outstanding) <= 1
    /\ Len(requests) = Len(responses) + Len(outstanding)
    /\ Len(requests) <= Len(Plan)
    /\ \A i \in DOMAIN requests : Endpoint(i) = Plan[i]
    /\ \A i \in 1..(Len(requests) - 1) : Succeeded(i)
    /\ \A i \in DOMAIN responses : ~Succeeded(i) => i = Len(requests)
    /\ outstanding # <<>> => outstanding[1] = requests[Len(requests)]
    /\ pc # "main" /\ ~MissingCredential /\ args.command \in {"create", "list"} =>
           requests # <<>>
    /\ Exited /\ exit_code = 0 /\ args.command = "list" => Len(requests) = 1
    /\ Exited /\ exit_code = 0 /\ args.command = "create" => Len(requests) = 2

RequestOrderingWitness ==
    /\ args.command = "create" /\ Exited /\ exit_code = 0
    /\ Len(requests) = 2 /\ Len(responses) = 2 /\ Succeeded(1) /\ Succeeded(2)

====
